---- MODULE Spec2Model ----
(***************************************************************************)
(* Model of analytics/rights_report.py: a batch script that loads          *)
(* user_activity.csv, draws up to three top-N bar charts into              *)
(* analytics_reports/ and writes analytics_reports/report.html.            *)
(*                                                                         *)
(* Text is modelled as a sequence of one-character strings, so that        *)
(* str.lower() and str() are computed rather than assumed.  A cell that    *)
(* read_csv turns into NaN is the empty sequence (an empty CSV field).     *)
(***************************************************************************)
EXTENDS Integers, Sequences, FiniteSets, TLC

VARIABLES
    csv,        \* the file the running process finds at INPUT_CSV
    dirExists,  \* whether OUT_DIR exists
    files,      \* content of OUT_DIR: file name -> content
    pc,         \* position of the running process in main()
    df,         \* main's df
    searches,   \* main's searches
    downloads,  \* main's downloads
    p1, p2, p3, \* main's p1, p2, p3
    stats,      \* main's stats
    err,        \* the exception that ended the run, if any
    log,        \* names of the files written by the current run, in order
    prevFiles,  \* content of OUT_DIR when the current run started
    runs,       \* number of runs started so far
    series,     \* ranking check: the series handed to plot_and_save
    top_n,      \* ranking check: plot_and_save's top_n
    top,        \* ranking check: plot_and_save's top
    rpc         \* ranking check: position

vars == <<csv, dirExists, files, pc, df, searches, downloads, p1, p2, p3,
          stats, err, log, prevFiles, runs, series, top_n, top, rpc>>

pipeVars == <<csv, dirExists, files, pc, df, searches, downloads, p1, p2, p3,
              stats, err, log, prevFiles, runs>>

rankVars == <<series, top_n, top, rpc>>

-----------------------------------------------------------------------------
(* Bounds *)

MaxRows == 2
MaxRuns == 2
MaxLen == 4
MaxTopN == 2

-----------------------------------------------------------------------------
(* Program constants *)

INPUT_CSV == "user_activity.csv"
OUT_DIR == "analytics_reports"
DEFAULT_TOP_N == 10

TERMS_PNG == "top_searched_terms.png"
FORMS_PNG == "top_downloaded_forms.png"
CATEGORIES_PNG == "top_categories.png"
REPORT_HTML == "report.html"

ChartNames == {TERMS_PNG, FORMS_PNG, CATEGORIES_PNG}

-----------------------------------------------------------------------------
(* Python values *)

NaN == <<>>
None == <<>>

PyInt(n) == [t |-> "int", i |-> n, s |-> <<>>]
PyStr(cs) == [t |-> "str", i |-> 0, s |-> cs]

UPPER == <<"A","B","C","D","E","F","G","H","I","J","K","L","M",
           "N","O","P","Q","R","S","T","U","V","W","X","Y","Z">>
LOWER == <<"a","b","c","d","e","f","g","h","i","j","k","l","m",
           "n","o","p","q","r","s","t","u","v","w","x","y","z">>

LowerChar(c) ==
    IF \E k \in 1..Len(UPPER) : UPPER[k] = c
    THEN LOWER[CHOOSE k \in 1..Len(UPPER) : UPPER[k] = c]
    ELSE c

\* str.lower(); NaN stays NaN
str_lower(s) == [k \in 1..Len(s) |-> LowerChar(s[k])]

DIGITS == <<"0","1","2","3","4","5","6","7","8","9">>

RECURSIVE int_str(_)
\* str(n) for n >= 0
int_str(n) ==
    IF n < 10 THEN <<DIGITS[n + 1]>>
    ELSE int_str(n \div 10) \o <<DIGITS[(n % 10) + 1]>>

\* f"{v}"
format(v) == IF v.t = "int" THEN int_str(v.i) ELSE v.s

\* os.path.join(OUT_DIR, fname)
path_join(dir, fname) == <<dir, fname>>

\* truth value of a path-or-None
truthy(p) == Len(p) > 0

-----------------------------------------------------------------------------
(* The input: columns and rows of user_activity.csv *)

Columns == {"timestamp", "action", "term", "form_id", "category", "user_id"}

TS == <<"2","0","2","5">>
search_ == <<"s","e","a","r","c","h">>
Search_ == <<"S","e","a","r","c","h">>
SEARCH_ == <<"S","E","A","R","C","H">>
download_ == <<"d","o","w","n","l","o","a","d">>
downloaded_ == <<"d","o","w","n","l","o","a","d","e","d">>
Downloaded_ == <<"D","o","w","n","l","o","a","d","e","d">>
searched_ == <<"s","e","a","r","c","h","e","d">>

Event(a, t, f, c, u) ==
    [timestamp |-> TS, action |-> a, term |-> t, form_id |-> f,
     category |-> c, user_id |-> u]

\* Events a log can hold: every action class in several spellings, with and
\* without the optional values.
SampleEvents ==
    { Event(Search_,     <<"b","a","i","l">>, NaN,       <<"c","1">>, <<"u","1">>),
      Event(SEARCH_,     NaN,                 NaN,       <<"c","2">>, <<"u","2">>),
      Event(download_,   NaN,                 <<"f","1">>, <<"c","1">>, <<"u","1">>),
      Event(Downloaded_, NaN,                 NaN,       NaN,         NaN),
      Event(searched_,   <<"f","i","r">>,     <<"f","2">>, NaN,       <<"u","2">>),
      Event(NaN,         NaN,                 NaN,       NaN,         NaN) }

\* one line of the file, under the header `cols`
Row(e, cols) == [c \in cols |-> e[c]]

ColumnSets ==
    { cs \in SUBSET Columns : "timestamp" \in cs }
        \cup { Columns \ {"timestamp"} }

RowSeqs(cols, n) ==
    UNION { [1..k -> { Row(e, cols) : e \in SampleEvents }] : k \in 0..n }

NoFile == [exists |-> FALSE, cols |-> {}, rows |-> <<>>]

\* the files of at most MaxRows lines, and the missing file
Inputs ==
    {NoFile} \cup
    UNION { { [exists |-> TRUE, cols |-> cs, rows |-> rs] : rs \in RowSeqs(cs, MaxRows) }
            : cs \in ColumnSets }

\* the header-only and the one-line files, and the missing file
RerunInputs ==
    {NoFile} \cup
    UNION { { [exists |-> TRUE, cols |-> cs, rows |-> rs] :
                rs \in {<<>>} \cup { <<Row(e, cs)>> : e \in SampleEvents } }
            : cs \in ColumnSets }

-----------------------------------------------------------------------------
(* pandas operations the script calls *)

\* df[col] of a frame or segment: the column, in row order
column(frame, col) == [k \in 1..Len(frame) |-> frame[k][col]]

\* Series.dropna()
dropna(ser) == SelectSeq(ser, LAMBDA v : v # NaN)

\* Series.nunique(): distinct values, NaN not counted
nunique(ser) == Cardinality({ ser[k] : k \in 1..Len(ser) } \ {NaN})

\* The .str accessor is refused on a column that holds no text: a column of a
\* non-empty frame whose every cell is NaN is read as float64.
str_accessor_ok(ser) == Len(ser) = 0 \/ \E k \in 1..Len(ser) : ser[k] # NaN

\* number of cells of ser holding v
occurrences(ser, v) == Cardinality({ k \in 1..Len(ser) : ser[k] = v })

\* all arrangements of the elements of a sequence
Permutations_of(t) ==
    { [k \in 1..Len(t) |-> t[f[k]]] :
        f \in { g \in [1..Len(t) -> 1..Len(t)] :
                  \A a, b \in 1..Len(t) : a # b => g[a] # g[b] } }

count_descending(t) ==
    \A a, b \in 1..Len(t) : a < b => t[a].count >= t[b].count

\* distinct non-NaN values of ser in order of first occurrence
first_seen(ser) ==
    LET keep == { k \in 1..Len(ser) :
                    ser[k] # NaN /\ \A j \in 1..(k - 1) : ser[j] # ser[k] }
        rank(k) == Cardinality({ j \in keep : j <= k })
    IN  [r \in 1..Cardinality(keep) |-> ser[CHOOSE k \in keep : rank(k) = r]]

\* the (value, count) pairs of ser before sorting, in order of first occurrence
counted(ser) ==
    LET vs == first_seen(ser)
    IN  [r \in 1..Len(vs) |-> [value |-> vs[r], count |-> occurrences(ser, vs[r])]]

\* Series.sort_values(ascending=False): sorted with the default kind, a sort
\* that is not stable, so entries with equal counts come out in any order.
sort_values(t) == { u \in Permutations_of(t) : count_descending(u) }

\* Series.value_counts(): NaN dropped, then sort_values(ascending=False)
value_counts(ser) == sort_values(counted(ser))

\* position of entry k of t after a stable sort by descending count
stable_position(t, k) ==
    1 + Cardinality({ j \in 1..Len(t) :
                        \/ t[j].count > t[k].count
                        \/ t[j].count = t[k].count /\ j < k })

stable_sorted(t) ==
    [r \in 1..Len(t) |-> t[CHOOSE k \in 1..Len(t) : stable_position(t, k) = r]]

\* the sorted counts with no cut at n
nlargest_uncut(t, n) == sort_values(t)

\* Series.nlargest(n), keep="first": the whole series re-sorted when n covers
\* it, else the n largest with ties kept in order of appearance
nlargest(t, n) ==
    IF n >= Len(t)
    THEN sort_values(t)
    ELSE { SubSeq(stable_sorted(t), 1, n) }

\* series.value_counts().nlargest(top_n): the tables line 29 can produce
ranked(ser, n) == UNION { nlargest(t, n) : t \in value_counts(ser) }

-----------------------------------------------------------------------------
(* The report *)

Line(tag, text, val) == [tag |-> tag, text |-> text, val |-> val]

NoErr == [type |-> "", arg |-> ""]
Raised(type, arg) == [type |-> type, arg |-> arg]

NoStats == <<>>

\* build_html with the third section guarded by the second chart's path
build_html_wrong_guard(st, q1, q2, q3) ==
    <<  Line("head", "LegalHuB Analytics Report", <<>>),
        Line("h1", "LegalHuB Analytics Report", <<>>),
        Line("h2", "Summary", <<>>),
        Line("ul", "", <<>>) >>
    \o [k \in 1..Len(st) |-> Line("li", st[k].k, format(st[k].v))]
    \o << Line("/ul", "", <<>>) >>
    \o (IF truthy(q1)
        THEN << Line("h2", "Top Searched Terms", <<>>), Line("img", TERMS_PNG, <<>>) >>
        ELSE <<>>)
    \o (IF truthy(q2)
        THEN << Line("h2", "Top Downloaded Forms", <<>>), Line("img", FORMS_PNG, <<>>) >>
        ELSE <<>>)
    \o (IF truthy(q2)
        THEN << Line("h2", "Top Categories", <<>>), Line("img", CATEGORIES_PNG, <<>>) >>
        ELSE <<>>)
    \o << Line("/body", "", <<>>) >>

\* lines 76-96: the html list
build_html(st, q1, q2, q3) ==
    <<  Line("head", "LegalHuB Analytics Report", <<>>),
        Line("h1", "LegalHuB Analytics Report", <<>>),
        Line("h2", "Summary", <<>>),
        Line("ul", "", <<>>) >>
    \o [k \in 1..Len(st) |-> Line("li", st[k].k, format(st[k].v))]
    \o << Line("/ul", "", <<>>) >>
    \o (IF truthy(q1)
        THEN << Line("h2", "Top Searched Terms", <<>>), Line("img", TERMS_PNG, <<>>) >>
        ELSE <<>>)
    \o (IF truthy(q2)
        THEN << Line("h2", "Top Downloaded Forms", <<>>), Line("img", FORMS_PNG, <<>>) >>
        ELSE <<>>)
    \o (IF truthy(q3)
        THEN << Line("h2", "Top Categories", <<>>), Line("img", CATEGORIES_PNG, <<>>) >>
        ELSE <<>>)
    \o << Line("/body", "", <<>>) >>

\* open(path, "w").write(content): create or replace
write_file(fs, name, content) ==
    [n \in DOMAIN fs \cup {name} |-> IF n = name THEN content ELSE fs[n]]

-----------------------------------------------------------------------------
(* The pipeline: one process per run, main() from top to bottom *)

Init ==
    /\ csv = NoFile
    /\ dirExists = FALSE
    /\ files = <<>>
    /\ pc = "idle"
    /\ df = <<>>
    /\ searches = <<>>
    /\ downloads = <<>>
    /\ p1 = None /\ p2 = None /\ p3 = None
    /\ stats = NoStats
    /\ err = NoErr
    /\ log = <<>>
    /\ prevFiles = <<>>
    /\ runs = 0
    /\ series = <<>>
    /\ top_n = DEFAULT_TOP_N
    /\ top = <<>>
    /\ rpc = "off"

\* A process is started on the file `input` found at INPUT_CSV; line 20
\* creates OUT_DIR if it is missing, and main() begins.
Launch(input) ==
    /\ csv' = input
    /\ dirExists' = TRUE
    /\ pc' = "load"
    /\ df' = <<>> /\ searches' = <<>> /\ downloads' = <<>>
    /\ p1' = None /\ p2' = None /\ p3' = None
    /\ stats' = NoStats
    /\ err' = NoErr
    /\ log' = <<>>
    /\ prevFiles' = files
    /\ runs' = runs + 1
    /\ UNCHANGED <<files, rankVars>>

\* the first run, in a fresh directory
StartRun ==
    /\ pc = "idle"
    /\ runs = 0
    /\ \E input \in Inputs : Launch(input)

\* a run against OUT_DIR as the earlier runs, if any, left it
Rerun ==
    /\ pc = "idle"
    /\ runs < MaxRuns
    /\ \E input \in RerunInputs : Launch(input)

Fail(type, arg) ==
    /\ pc' = "failed"
    /\ err' = Raised(type, arg)

\* lines 22-26, 43: load_data(INPUT_CSV)
LoadData ==
    /\ pc = "load"
    /\ csv.exists
    /\ "timestamp" \in csv.cols
    /\ df' = csv.rows
    /\ pc' = "searches"
    /\ UNCHANGED <<csv, dirExists, files, searches, downloads, p1, p2, p3,
                   stats, err, log, prevFiles, runs, rankVars>>

\* the report opened for writing before the input is looked at
LoadDataNotFound_truncates ==
    /\ pc = "load"
    /\ ~csv.exists
    /\ Fail("FileNotFoundError", INPUT_CSV)
    /\ files' = write_file(files, REPORT_HTML, <<>>)
    /\ UNCHANGED <<csv, dirExists, df, searches, downloads, p1, p2, p3,
                   stats, log, prevFiles, runs, rankVars>>

\* lines 23-24: the message of the exception begins with the path
LoadDataNotFound ==
    /\ pc = "load"
    /\ ~csv.exists
    /\ Fail("FileNotFoundError", INPUT_CSV)
    /\ UNCHANGED <<csv, dirExists, files, df, searches, downloads, p1, p2, p3,
                   stats, log, prevFiles, runs, rankVars>>

\* line 25: parse_dates names a column the file does not have
LoadDataNoTimestamp ==
    /\ pc = "load"
    /\ csv.exists
    /\ "timestamp" \notin csv.cols
    /\ Fail("ValueError", "timestamp")
    /\ UNCHANGED <<csv, dirExists, files, df, searches, downloads, p1, p2, p3,
                   stats, log, prevFiles, runs, rankVars>>

is_search(row) == str_lower(row["action"]) = search_

\* the download mask without the "downloaded" spelling
is_download_one_spelling(row) == str_lower(row["action"]) = download_

is_download(row) == str_lower(row["action"]) \in {download_, downloaded_}

\* df["action"].str.lower() can be evaluated
action_readable ==
    /\ "action" \in csv.cols
    /\ str_accessor_ok(column(df, "action"))

\* line 46: df[mask], the rows whose mask is true, in order, as a new frame
FilterSearches ==
    /\ pc = "searches"
    /\ action_readable
    /\ searches' = SelectSeq(df, is_search)
    /\ pc' = "terms"
    /\ UNCHANGED <<csv, dirExists, files, df, downloads, p1, p2, p3,
                   stats, err, log, prevFiles, runs, rankVars>>

\* line 46: df["action"] raises KeyError, or .str raises AttributeError
FilterSearchesFails ==
    /\ pc = "searches"
    /\ ~action_readable
    /\ IF "action" \notin csv.cols
       THEN Fail("KeyError", "action")
       ELSE Fail("AttributeError", "str")
    /\ UNCHANGED <<csv, dirExists, files, df, searches, downloads, p1, p2, p3,
                   stats, log, prevFiles, runs, rankVars>>

\* plot_and_save without line 37: the figure is never saved
PlotAndSave_unsaved(ser, fname) ==
    \E t \in ranked(ser, DEFAULT_TOP_N) :
        /\ Len(t) > 0
        /\ UNCHANGED <<files, log>>

\* lines 28-39: plot_and_save(ser, title, fname) with a table that has bars
PlotAndSave(ser, fname) ==
    \E t \in ranked(ser, DEFAULT_TOP_N) :
        /\ Len(t) > 0
        /\ files' = write_file(files, fname, t)
        /\ log' = Append(log, fname)

\* lines 28-31 with no bar to draw: value_counts of an empty series is an
\* empty table, and the bar plot of line 31 raises IndexError on it (it reads
\* the position of the first bar); nothing is saved
PlotRaises(ser) ==
    /\ ranked(ser, DEFAULT_TOP_N) = {<<>>}
    /\ Fail("IndexError", "plot")

terms_series == dropna(column(searches, "term"))

\* lines 47-49
TermsChart ==
    /\ pc = "terms"
    /\ "term" \in csv.cols
    /\ PlotAndSave(terms_series, TERMS_PNG)
    /\ p1' = path_join(OUT_DIR, TERMS_PNG)
    /\ pc' = "downloads"
    /\ UNCHANGED <<csv, dirExists, df, searches, downloads, p2, p3,
                   stats, err, prevFiles, runs, rankVars>>

\* line 49, raising inside plot_and_save
TermsChartFails ==
    /\ pc = "terms"
    /\ "term" \in csv.cols
    /\ PlotRaises(terms_series)
    /\ UNCHANGED <<csv, dirExists, files, df, searches, downloads, p1, p2, p3,
                   stats, log, prevFiles, runs, rankVars>>

\* lines 50-51
TermsChartSkipped ==
    /\ pc = "terms"
    /\ "term" \notin csv.cols
    /\ p1' = None
    /\ pc' = "downloads"
    /\ UNCHANGED <<csv, dirExists, files, df, searches, downloads, p2, p3,
                   stats, err, log, prevFiles, runs, rankVars>>

\* line 54
FilterDownloads ==
    /\ pc = "downloads"
    /\ downloads' = SelectSeq(df, is_download)
    /\ pc' = "forms"
    /\ UNCHANGED <<csv, dirExists, files, df, searches, p1, p2, p3,
                   stats, err, log, prevFiles, runs, rankVars>>

forms_series == dropna(column(downloads, "form_id"))

\* lines 55-57
FormsChart ==
    /\ pc = "forms"
    /\ "form_id" \in csv.cols
    /\ PlotAndSave(forms_series, FORMS_PNG)
    /\ p2' = path_join(OUT_DIR, FORMS_PNG)
    /\ pc' = "categories"
    /\ UNCHANGED <<csv, dirExists, df, searches, downloads, p1, p3,
                   stats, err, prevFiles, runs, rankVars>>

\* line 57, raising inside plot_and_save
FormsChartFails ==
    /\ pc = "forms"
    /\ "form_id" \in csv.cols
    /\ PlotRaises(forms_series)
    /\ UNCHANGED <<csv, dirExists, files, df, searches, downloads, p1, p2, p3,
                   stats, log, prevFiles, runs, rankVars>>

\* lines 58-59
FormsChartSkipped ==
    /\ pc = "forms"
    /\ "form_id" \notin csv.cols
    /\ p2' = None
    /\ pc' = "categories"
    /\ UNCHANGED <<csv, dirExists, files, df, searches, downloads, p1, p3,
                   stats, err, log, prevFiles, runs, rankVars>>

categories_series == dropna(column(df, "category"))

\* lines 62-64
CategoriesChart ==
    /\ pc = "categories"
    /\ "category" \in csv.cols
    /\ PlotAndSave(categories_series, CATEGORIES_PNG)
    /\ p3' = path_join(OUT_DIR, CATEGORIES_PNG)
    /\ pc' = "stats"
    /\ UNCHANGED <<csv, dirExists, df, searches, downloads, p1, p2,
                   stats, err, prevFiles, runs, rankVars>>

\* line 64, raising inside plot_and_save
CategoriesChartFails ==
    /\ pc = "categories"
    /\ "category" \in csv.cols
    /\ PlotRaises(categories_series)
    /\ UNCHANGED <<csv, dirExists, files, df, searches, downloads, p1, p2, p3,
                   stats, log, prevFiles, runs, rankVars>>

\* the else branch going straight to the report, past the stats
CategoriesChartSkipped_past_stats ==
    /\ pc = "categories"
    /\ "category" \notin csv.cols
    /\ p3' = None
    /\ pc' = "report"
    /\ UNCHANGED <<csv, dirExists, files, df, searches, downloads, p1, p2,
                   stats, err, log, prevFiles, runs, rankVars>>

\* lines 65-66
CategoriesChartSkipped ==
    /\ pc = "categories"
    /\ "category" \notin csv.cols
    /\ p3' = None
    /\ pc' = "stats"
    /\ UNCHANGED <<csv, dirExists, files, df, searches, downloads, p1, p2,
                   stats, err, log, prevFiles, runs, rankVars>>

\* the stats dict with total_searches counted over the terms that were charted
compute_stats_charted_terms ==
    << [k |-> "total_events", v |-> PyInt(Len(df))],
       [k |-> "unique_users",
        v |-> IF "user_id" \in csv.cols
              THEN PyInt(nunique(column(df, "user_id")))
              ELSE PyStr(<<"N","/","A">>)],
       [k |-> "total_searches",
        v |-> IF "term" \in csv.cols
              THEN PyInt(Len(dropna(column(searches, "term"))))
              ELSE PyInt(Len(searches))] >>

\* lines 69-73: the stats dict, in insertion order
compute_stats ==
    << [k |-> "total_events", v |-> PyInt(Len(df))],
       [k |-> "unique_users",
        v |-> IF "user_id" \in csv.cols
              THEN PyInt(nunique(column(df, "user_id")))
              ELSE PyStr(<<"N","/","A">>)],
       [k |-> "total_searches", v |-> PyInt(Len(searches))] >>

ComputeStats ==
    /\ pc = "stats"
    /\ stats' = compute_stats
    /\ pc' = "report"
    /\ UNCHANGED <<csv, dirExists, files, df, searches, downloads, p1, p2, p3,
                   err, log, prevFiles, runs, rankVars>>

\* lines 76-100
WriteReport ==
    /\ pc = "report"
    /\ files' = write_file(files, REPORT_HTML, build_html(stats, p1, p2, p3))
    /\ log' = Append(log, REPORT_HTML)
    /\ pc' = "done"
    /\ UNCHANGED <<csv, dirExists, df, searches, downloads, p1, p2, p3,
                   stats, err, prevFiles, runs, rankVars>>

\* lines 102-103 and the return of main(), or the traceback of an uncaught
\* exception: the process ends and only OUT_DIR keeps what it did
Exit ==
    /\ pc \in {"done", "failed"}
    /\ pc' = "idle"
    /\ csv' = NoFile
    /\ df' = <<>> /\ searches' = <<>> /\ downloads' = <<>>
    /\ p1' = None /\ p2' = None /\ p3' = None
    /\ stats' = NoStats
    /\ err' = NoErr
    /\ log' = <<>>
    /\ prevFiles' = files
    /\ UNCHANGED <<dirExists, files, runs, rankVars>>

Steps ==
    \/ LoadData
    \/ LoadDataNotFound
    \/ LoadDataNoTimestamp
    \/ FilterSearches
    \/ FilterSearchesFails
    \/ TermsChart
    \/ TermsChartFails
    \/ TermsChartSkipped
    \/ FilterDownloads
    \/ FormsChart
    \/ FormsChartFails
    \/ FormsChartSkipped
    \/ CategoriesChart
    \/ CategoriesChartFails
    \/ CategoriesChartSkipped
    \/ ComputeStats
    \/ WriteReport

\* one run in a fresh output directory
Next == StartRun \/ Steps

Spec == Init /\ [][Next]_vars

\* successive runs against the same output directory
NextRerun == Rerun \/ Steps \/ Exit

SpecRerun == Init /\ [][NextRerun]_vars

-----------------------------------------------------------------------------
(* Line 29 on its own: plot_and_save's ranking of an arbitrary series *)

RankValues == { <<"a">>, <<"b">>, <<"c">> }

SeriesUpTo(n) == UNION { [1..k -> RankValues \cup {NaN}] : k \in 0..n }

InitRank ==
    /\ csv = NoFile
    /\ dirExists = FALSE
    /\ files = <<>>
    /\ pc = "idle"
    /\ df = <<>>
    /\ searches = <<>>
    /\ downloads = <<>>
    /\ p1 = None /\ p2 = None /\ p3 = None
    /\ stats = NoStats
    /\ err = NoErr
    /\ log = <<>>
    /\ prevFiles = <<>>
    /\ runs = 0
    /\ series \in SeriesUpTo(MaxLen)
    /\ top_n \in 1..MaxTopN
    /\ top = <<>>
    /\ rpc = "call"

\* line 29
Rank ==
    /\ rpc = "call"
    /\ top' \in ranked(series, top_n)
    /\ rpc' = "ranked"
    /\ UNCHANGED <<series, top_n, pipeVars>>

NextRank == Rank

SpecRank == InitRank /\ [][NextRank]_vars

-----------------------------------------------------------------------------
(* Reading what a run left behind *)

HasReport == REPORT_HTML \in DOMAIN files

TheReport == files[REPORT_HTML]

\* the files the img tags of a document point at
ImgRefs(html) == { html[k].text : k \in { j \in 1..Len(html) : html[j].tag = "img" } }

\* a heading directly followed by the img tag of `src`
HasSection(html, heading, src) ==
    \E k \in 1..(Len(html) - 1) :
        /\ html[k].tag = "h2" /\ html[k].text = heading
        /\ html[k + 1].tag = "img" /\ html[k + 1].text = src

\* either half of a chart section, anywhere in the document
MentionsTopic(html, heading, src) ==
    \E k \in 1..Len(html) :
        \/ html[k].tag = "h2" /\ html[k].text = heading
        \/ html[k].tag = "img" /\ html[k].text = src

HasSummary(html) ==
    \E k \in 1..Len(html) : html[k].tag = "h2" /\ html[k].text = "Summary"

Topics ==
    { [col |-> "term", heading |-> "Top Searched Terms", png |-> TERMS_PNG],
      [col |-> "form_id", heading |-> "Top Downloaded Forms", png |-> FORMS_PNG],
      [col |-> "category", heading |-> "Top Categories", png |-> CATEGORIES_PNG] }

ChartColumns == { tp.col : tp \in Topics }

\* the run's input could be loaded and split into segments
InputUsable ==
    /\ csv.exists
    /\ {"timestamp", "action"} \subseteq csv.cols
    /\ \/ csv.rows = <<>>
       \/ \E k \in 1..Len(csv.rows) : csv.rows[k]["action"] # NaN

-----------------------------------------------------------------------------
(* C1 *)

-----------------------------------------------------------------------------
(* C2 *)

ChartsPresent == DOMAIN files \cap ChartNames

ChartsWritten == { log[k] : k \in 1..Len(log) } \cap ChartNames

\* the directory the run started in was empty, or held a report whose img
\* tags referenced exactly the chart files in it
PrevConsistent ==
    \/ prevFiles = <<>>
    \/ /\ REPORT_HTML \in DOMAIN prevFiles
       /\ DOMAIN prevFiles \cap ChartNames = ImgRefs(prevFiles[REPORT_HTML])

\* C2 as stated: after every successful run, also one that follows an earlier
\* run on a different input, the chart files present in the output directory
\* are exactly the files the report's img tags reference.
C2_PresentEqualsReferenced ==
    pc = "done" /\ PrevConsistent => ChartsPresent = ImgRefs(TheReport)

\* C2 as amended: after every successful run, the chart files that run wrote
\* are exactly the files the report's img tags reference, and every
\* referenced file is present; chart files of earlier runs may remain.
C2_WrittenEqualsReferenced ==
    pc = "done" =>
        /\ ChartsWritten = ImgRefs(TheReport)
        /\ ImgRefs(TheReport) \subseteq ChartsPresent

\* a successful second run that references a chart while another run's chart
\* is still in the directory
C2_Witness ==
    /\ pc = "done"
    /\ runs = 2
    /\ ImgRefs(TheReport) # {}
    /\ ChartsPresent \ ImgRefs(TheReport) # {}

-----------------------------------------------------------------------------
(* C6 *)

InputMissing == ~csv.exists

ActionColumnMissing == csv.exists /\ "action" \notin csv.cols

\* C6: a run whose input file is missing, or lacks the action column, never
\* completes and writes nothing: the output directory stays as the run found
\* it; the run on a missing file ends with FileNotFoundError naming INPUT_CSV.
C6_FatalWritesNothing ==
    pc # "idle" /\ (InputMissing \/ ActionColumnMissing) =>
        /\ pc \in {"load", "searches", "failed"}
        /\ log = <<>>
        /\ files = prevFiles
        /\ pc = "failed" => err # NoErr
        /\ pc = "failed" /\ InputMissing =>
              err = Raised("FileNotFoundError", INPUT_CSV)
        /\ pc = "failed" /\ ActionColumnMissing =>
              err.type \in {"KeyError", "ValueError"}

\* a run that failed on a missing file, in a directory that holds an earlier
\* run's report and chart
C6_Witness ==
    /\ pc = "failed"
    /\ InputMissing
    /\ HasReport
    /\ ChartsPresent # {}

-----------------------------------------------------------------------------
(* C10 *)

StageOrder ==
    << "idle", "load", "searches", "terms", "downloads", "forms",
       "categories", "stats", "report", "done" >>

StageNo(st) == CHOOSE k \in 1..Len(StageOrder) : StageOrder[k] = st

WriteOrder == << TERMS_PNG, FORMS_PNG, CATEGORIES_PNG, REPORT_HTML >>

WriteNo(f) == CHOOSE k \in 1..Len(WriteOrder) : WriteOrder[k] = f

\* one step of a run: the next stage or the failure, and any write comes
\* after the writes already made, never after the report
OrderedStep ==
    /\ pc' # pc =>
          /\ pc \notin {"done", "failed"}
          /\ \/ pc' = "failed" /\ REPORT_HTML \notin { log'[k] : k \in 1..Len(log') }
             \/ pc' # "failed" /\ StageNo(pc') = StageNo(pc) + 1
    /\ log' # log =>
          /\ Len(log') = Len(log) + 1
          /\ SubSeq(log', 1, Len(log)) = log
          /\ \A k \in 1..Len(log) : WriteNo(log[k]) < WriteNo(log'[Len(log')])
          /\ log'[Len(log')] = REPORT_HTML <=> pc' = "done"

\* C10: the stages of a run follow one another in the fixed order load,
\* searched terms, downloaded forms, categories, stats, report, with no stage
\* repeated or revisited; the report is written once, after every chart write
\* of the run, and a run that fails writes no report.
C10_StagesInOrder == [][OrderedStep]_vars

\* a finished run that wrote all three charts and then the report
C10_Witness ==
    /\ pc = "done"
    /\ log = << TERMS_PNG, FORMS_PNG, CATEGORIES_PNG, REPORT_HTML >>

-----------------------------------------------------------------------------
(* Case-insensitive comparison and the segments, stated without str.lower *)

SameLetter(a, b) ==
    \/ a = b
    \/ \E k \in 1..Len(UPPER) : {a, b} = {UPPER[k], LOWER[k]}

\* s and t are the same text up to the case of their letters
EqualIgnoringCase(s, t) ==
    /\ Len(s) = Len(t)
    /\ \A k \in 1..Len(s) : SameLetter(s[k], t[k])

IsSearchRecord(r) == EqualIgnoringCase(r["action"], search_)

IsDownloadRecord(r) ==
    \/ EqualIgnoringCase(r["action"], download_)
    \/ EqualIgnoringCase(r["action"], downloaded_)

SearchesBuilt ==
    pc \in {"terms", "downloads", "forms", "categories", "stats", "report", "done"}

DownloadsBuilt == pc \in {"forms", "categories", "stats", "report", "done"}

\* the records of the input a topic's chart is drawn from
TopicRecords(col) ==
    IF col = "term" THEN SelectSeq(csv.rows, IsSearchRecord)
    ELSE IF col = "form_id" THEN SelectSeq(csv.rows, IsDownloadRecord)
    ELSE csv.rows

\* the non-null values of the topic's column over those records
TopicValues(col) ==
    LET recs == TopicRecords(col)
    IN  SelectSeq([k \in 1..Len(recs) |-> recs[k][col]], LAMBDA v : v # NaN)

RunEnded == pc \in {"done", "failed"}

-----------------------------------------------------------------------------
(* C3 *)

\* C3: on a usable input of at least one record, a topic whose column exists
\* but whose frequency table is empty gets no chart and no section, and the
\* run still succeeds and writes its report with the other topics' charts.
C3_EmptyTableSkipsTopic ==
    RunEnded /\ InputUsable /\ csv.rows # <<>> =>
        /\ pc = "done"
        /\ \A tp \in Topics :
              tp.col \in csv.cols =>
                 IF TopicValues(tp.col) = <<>>
                 THEN /\ tp.png \notin ChartsWritten
                      /\ ~MentionsTopic(TheReport, tp.heading, tp.png)
                 ELSE /\ tp.png \in ChartsWritten
                      /\ HasSection(TheReport, tp.heading, tp.png)

-----------------------------------------------------------------------------
(* C4 *)

RECURSIVE ParseDigits(_)
\* the number a string of decimal digits denotes; -1 if it is not one
ParseDigits(cs) ==
    IF cs = <<>> THEN -1
    ELSE LET last == cs[Len(cs)]
             d == IF \E k \in 1..10 : DIGITS[k] = last
                  THEN (CHOOSE k \in 1..10 : DIGITS[k] = last) - 1
                  ELSE -1
             front == SubSeq(cs, 1, Len(cs) - 1)
         IN  IF d = -1 THEN -1
             ELSE IF front = <<>> THEN d
             ELSE IF ParseDigits(front) = -1 THEN -1
             ELSE 10 * ParseDigits(front) + d

\* the text the summary list shows for stat `key`
StatShown(html, key) ==
    html[CHOOSE k \in 1..Len(html) : html[k].tag = "li" /\ html[k].text = key].val

ShowsStat(html, key) ==
    Cardinality({ k \in 1..Len(html) : html[k].tag = "li" /\ html[k].text = key }) = 1

HeaderOnly == csv.exists /\ {"timestamp", "action"} \subseteq csv.cols /\ csv.rows = <<>>

\* C4: a run on a header-only input, whatever optional columns the header
\* names, succeeds and writes a report showing total_events 0 and
\* total_searches 0 with no chart section.
C4_HeaderOnlySucceeds ==
    RunEnded /\ HeaderOnly =>
        /\ pc = "done"
        /\ ParseDigits(StatShown(TheReport, "total_events")) = 0
        /\ ParseDigits(StatShown(TheReport, "total_searches")) = 0
        /\ ImgRefs(TheReport) = {}

-----------------------------------------------------------------------------
(* C7 *)

\* C7: the search segment is the records whose action equals "search" up to
\* case, the download segment the records whose action equals "download" or
\* "downloaded" up to case, each in input order; every other record, one with
\* no action included, is in neither; no record is in both; and the loaded
\* records stay as they were loaded.
C7_SegmentsByAction ==
    /\ SearchesBuilt =>
          /\ searches = SelectSeq(csv.rows, IsSearchRecord)
          /\ df = csv.rows
    /\ DownloadsBuilt =>
          /\ downloads = SelectSeq(csv.rows, IsDownloadRecord)
          /\ df = csv.rows
          /\ \A k \in 1..Len(df) :
                LET inS == \E j \in 1..Len(searches) : searches[j] = df[k]
                    inD == \E j \in 1..Len(downloads) : downloads[j] = df[k]
                IN  /\ ~(inS /\ inD)
                    /\ df[k]["action"] \in {NaN, searched_} => ~inS /\ ~inD
          /\ Len(searches) + Len(downloads) <= Len(df)

\* both segments built, from an upper-case search, a capitalised "Downloaded"
C7_Witness ==
    /\ DownloadsBuilt
    /\ Len(df) = 2
    /\ Len(searches) = 1 /\ searches[1]["action"] = SEARCH_
    /\ Len(downloads) = 1 /\ downloads[1]["action"] = Downloaded_

-----------------------------------------------------------------------------
(* C8 *)

UserIds == { csv.rows[k]["user_id"] : k \in 1..Len(csv.rows) } \ {NaN}

\* C8: a written report shows each of the three stats once; total_events is
\* the number of input records, total_searches the number of search records
\* whether or not they carry a term, and unique_users is "N/A" exactly when
\* the input has no user_id column and else the number of distinct non-null
\* user ids.
C8_SummaryStats ==
    pc = "done" =>
        /\ \A key \in {"total_events", "unique_users", "total_searches"} :
              ShowsStat(TheReport, key)
        /\ ParseDigits(StatShown(TheReport, "total_events")) = Len(csv.rows)
        /\ ParseDigits(StatShown(TheReport, "total_searches")) =
              Cardinality({ k \in 1..Len(csv.rows) : IsSearchRecord(csv.rows[k]) })
        /\ StatShown(TheReport, "unique_users") = <<"N","/","A">>
              <=> "user_id" \notin csv.cols
        /\ "user_id" \in csv.cols =>
              ParseDigits(StatShown(TheReport, "unique_users")) = Cardinality(UserIds)

\* a report over two search records of which one has no term, user_id absent
C8_Witness ==
    /\ pc = "done"
    /\ {"term"} \subseteq csv.cols /\ "user_id" \notin csv.cols
    /\ StatShown(TheReport, "total_searches") = <<"2">>
    /\ Len(TopicValues("term")) = 1
    /\ StatShown(TheReport, "unique_users") = <<"N","/","A">>

-----------------------------------------------------------------------------
(* C5 *)

SeriesValues == { series[k] : k \in 1..Len(series) } \ {NaN}

TimesIn(ser, v) == Cardinality({ k \in 1..Len(ser) : ser[k] = v })

Kept == { top[k].value : k \in 1..Len(top) }

\* C5: the ranked table has at most top_n entries, one per value, none of
\* them null; its counts do not increase along the table; each count is the
\* number of records of the series carrying the value; and no value left out
\* occurs more often than a value kept.
C5_TopNTable ==
    rpc = "ranked" =>
        /\ Len(top) <= top_n
        /\ Len(top) = IF Cardinality(SeriesValues) < top_n
                      THEN Cardinality(SeriesValues) ELSE top_n
        /\ \A a, b \in 1..Len(top) : a < b =>
              /\ top[a].count >= top[b].count
              /\ top[a].value # top[b].value
        /\ \A a \in 1..Len(top) :
              /\ top[a].value # NaN
              /\ top[a].value \in SeriesValues
              /\ top[a].count = TimesIn(series, top[a].value)
        /\ \A v \in SeriesValues \ Kept :
              \A a \in 1..Len(top) : TimesIn(series, v) <= top[a].count

\* a ranking that had to cut: more distinct values than top_n, a null among
\* the records, and a value left out
C5_Witness ==
    /\ rpc = "ranked"
    /\ Len(top) = top_n
    /\ Cardinality(SeriesValues) > top_n
    /\ \E k \in 1..Len(series) : series[k] = NaN
    /\ \E a \in 1..Len(top) : top[a].count >= 2

-----------------------------------------------------------------------------
(* C9 *)

FirstAt(ser, v) == CHOOSE k \in 1..Len(ser) : ser[k] = v /\ \A j \in 1..(k - 1) : ser[j] # v

\* C9: values with equal counts stand in the table in the order of their
\* first occurrence in the series, and of the values whose count ties at the
\* cut the ones met first are the ones kept.
C9_TiesByEncounterOrder ==
    rpc = "ranked" =>
        /\ \A a, b \in 1..Len(top) :
              a < b /\ top[a].count = top[b].count =>
                 FirstAt(series, top[a].value) < FirstAt(series, top[b].value)
        /\ \A v \in SeriesValues \ Kept :
              \A a \in 1..Len(top) :
                 top[a].count = TimesIn(series, v) =>
                    FirstAt(series, top[a].value) < FirstAt(series, v)

====
